---- MODULE Spec2Model ----
(***************************************************************************)
(* Model of databricks.labs.ucx.workspace_access.secrets                   *)
(* (SecretScopesSupport): building and running the apply task of a secret  *)
(* scope, the put-and-verify call with its in-flight check, and the        *)
(* limiter that guards the call.                                           *)
(*                                                                         *)
(* Spec       one apply task on scope "s1", record and migration state     *)
(*            drawn from bounded sets, the task may be run again.          *)
(* SpecScopes two apply tasks on the scopes "s1" and "s2", run by two      *)
(*            worker threads that interleave.                              *)
(* SpecLoad   NumWorkers threads calling _rate_limited_put_acl, kept as    *)
(*            the number of calls at each position of the call.            *)
(* SpecCrawl  get_crawler_tasks over the scopes of a workspace, its tasks  *)
(*            run while or after they are enumerated.                      *)
(***************************************************************************)
EXTENDS Integers, Sequences, FiniteSets, TLC

\* ------------------------------------------------------------------ bounds
MaxAcls == 2          \* longest ACL list of a permission record
MaxRuns == 2          \* how many times one apply task is run
NumWorkers == 32      \* threads calling _rate_limited_put_acl in SpecLoad

\* ------------------------------------------------------- program constants
num_retries == 5      \* _inflight_check(..., num_retries: int = 5)
max_requests_31 == 30 + 1   \* the limiter set one too high
max_requests == 30    \* @rate_limited(max_requests=30)

\* ------------------------------------------------------------------- data
None == "None"
Task == {"t1", "t2"}
Principal == {"A", "B", "A2"}
\* the values of workspace.AclPermission as they stand in the JSON payload
AclPermissionValue == {"READ", "WRITE"}
\* the members of the enumeration workspace.AclPermission
AclPermission == {"AclPermission.READ", "AclPermission.WRITE"}

\* the enumeration lookup of AclItem.from_dict: JSON string -> member
_enum(v) ==
  CASE v = "READ" -> "AclPermission.READ"
    [] v = "WRITE" -> "AclPermission.WRITE"
    [] OTHER -> None

\* workspace.AclItem.from_dict(acl)
from_dict(d) == [principal |-> d.principal, permission |-> _enum(d.permission)]

\* [workspace.AclItem.from_dict(acl) for acl in json.loads(item.raw)]
loads(raw) == [i \in 1..Len(raw) |-> from_dict(raw[i])]

\* the scope a task's record belongs to (Permissions.object_id)
ScopeOf(t) == IF t = "t1" THEN "s1" ELSE "s2"
Scope == {ScopeOf(t) : t \in Task}

\* one entry of the JSON payload of a record
Dict == [principal : Principal, permission : AclPermissionValue]

\* the payloads a crawler task can have captured: list_acls gives one entry
\* per principal, so the principals of a payload are distinct
Raws(ps) ==
  {r \in UNION {[1..n -> [principal : ps, permission : AclPermissionValue]] : n \in 0..MaxAcls} :
     \A i, j \in 1..Len(r) : r[i].principal = r[j].principal => i = j}

\* GroupMigrationState as this module consumes it: is_in_scope and
\* get_target_principal for the destination handed to get_apply_task.
\* The target of a principal that is not in scope is never asked for.
MigrationStates ==
  {ms \in [in_scope : SUBSET Principal, target : [Principal -> Principal \cup {None}]] :
     \A p \in Principal : p \notin ms.in_scope => ms.target[p] = None}

is_in_scope(ms, name) == name \in ms.in_scope

get_target_principal(ms, name) == ms.target[name]

VARIABLES
  item,             \* [Task -> Permissions record, or None when the task is absent]
  migration_state,  \* the GroupMigrationState of the run
  new_acls,         \* [Task -> the list captured by the closure apply_acls]
  pc,               \* [Task -> position of the task]
  idx,              \* [Task -> index in new_acls of the entry the loop is at]
  retries_left,     \* [Task -> retries_left of the running _inflight_check]
  slots,            \* calls holding a slot of the limiter
  acl,              \* [Scope -> [Principal -> permission or None]], the backend
  writes,           \* [Task -> put_acl calls issued by the current run, in order]
  reads,            \* [Task -> ACL reads made by the current put-and-verify call]
  observed,         \* [Task -> result of the latest read of the current call]
  error,            \* [Task -> what the current run raised, or None]
  runs,             \* [Task -> number of runs of the task started]
  runs_left,        \* [Task -> runs the scheduler still gives the task]
  puts,             \* [Task -> put_acl calls made by the current put-and-verify call]
  verified,         \* [Task -> <<scope, principal, permission read>> of the calls of
                    \*  the current run whose in-flight check returned, in order]
  prev_run,         \* [Task -> outcome and put_acl calls of the run before the current]
  calls,            \* SpecLoad: [position -> number of calls at it]
  sleeps,           \* [Task -> time.sleep calls made by the current put-and-verify call]
  ws_scopes,        \* SpecCrawl: the secret scopes of the workspace, in listing order
  scopes,           \* SpecCrawl: what list_scopes() gave get_crawler_tasks, or None
  crawl_pc,         \* SpecCrawl: position of the generator get_crawler_tasks
  crawler_tasks,    \* SpecCrawl: the tasks yielded so far, with their outcome
  list_acls_log     \* SpecCrawl: the scopes list_acls was called for, in call order

vars == <<item, migration_state, new_acls, pc, idx, retries_left, slots, acl,
          writes, reads, observed, error, runs, runs_left, puts, verified,
          prev_run, calls, sleeps, ws_scopes, scopes, crawl_pc, crawler_tasks,
          list_acls_log>>

\* the state of the crawler
crawl_vars == <<ws_scopes, scopes, crawl_pc, crawler_tasks, list_acls_log>>

\* ------------------------------------------------ get_apply_task (pure part)

\* only the first entry of the payload is looked at
_is_item_relevant_first_only(raw, ms) ==
  Len(raw) > 0 /\ is_in_scope(ms, from_dict(raw[1]).principal)

\* a record counts only if an in-scope principal of it has a target
_is_item_relevant_needs_target(raw, ms) ==
  \E i \in 1..Len(raw) :
    /\ is_in_scope(ms, from_dict(raw[i]).principal)
    /\ get_target_principal(ms, from_dict(raw[i]).principal) # None

\* SecretScopesSupport._is_item_relevant
_is_item_relevant(raw, ms) ==
  \E i \in 1..Len(raw) : is_in_scope(ms, from_dict(raw[i]).principal)

\* entries of principals that are not in scope are left out of new_acls
RECURSIVE remap_skip_out_of_scope(_, _)
remap_skip_out_of_scope(acls, ms) ==
  IF acls = <<>> THEN <<>>
  ELSE LET a == Head(acls)
           target_principal == get_target_principal(ms, a.principal)
       IN IF ~is_in_scope(ms, a.principal) \/ target_principal = None
          THEN remap_skip_out_of_scope(Tail(acls), ms)
          ELSE <<[principal |-> target_principal, permission |-> a.permission]>>
               \o remap_skip_out_of_scope(Tail(acls), ms)

\* an in-scope entry without a target principal is kept under its own name
RECURSIVE remap_keep_untargeted(_, _)
remap_keep_untargeted(acls, ms) ==
  IF acls = <<>> THEN <<>>
  ELSE LET a == Head(acls)
           target_principal == get_target_principal(ms, a.principal)
       IN IF ~is_in_scope(ms, a.principal) \/ target_principal = None
          THEN <<a>> \o remap_keep_untargeted(Tail(acls), ms)
          ELSE <<[principal |-> target_principal, permission |-> a.permission]>>
               \o remap_keep_untargeted(Tail(acls), ms)

\* the remapped entry is built with a fixed permission
RECURSIVE remap_read_only(_, _)
remap_read_only(acls, ms) ==
  IF acls = <<>> THEN <<>>
  ELSE LET a == Head(acls)
           target_principal == get_target_principal(ms, a.principal)
       IN IF ~is_in_scope(ms, a.principal) THEN <<a>> \o remap_read_only(Tail(acls), ms)
          ELSE IF target_principal = None THEN remap_read_only(Tail(acls), ms)
          ELSE <<[principal |-> target_principal, permission |-> "AclPermission.READ"]>>
               \o remap_read_only(Tail(acls), ms)

\* the loop of get_apply_task over acls that fills new_acls
RECURSIVE remap(_, _)
remap(acls, ms) ==
  IF acls = <<>> THEN <<>>
  ELSE LET a == Head(acls)
           target_principal == get_target_principal(ms, a.principal)
       IN IF ~is_in_scope(ms, a.principal) THEN <<a>> \o remap(Tail(acls), ms)
          ELSE IF target_principal = None THEN remap(Tail(acls), ms)
          ELSE <<[principal |-> target_principal, permission |-> a.permission]>>
               \o remap(Tail(acls), ms)

\* new_acls is walked from its end
PutArgs_reversed(t, i) ==
  <<item[t].object_id, new_acls[t][Len(new_acls[t]) + 1 - i].principal,
    new_acls[t][Len(new_acls[t]) + 1 - i].permission>>

\* the arguments apply_acls hands to _rate_limited_put_acl for entry i
PutArgs(t, i) ==
  <<item[t].object_id, new_acls[t][i].principal, new_acls[t][i].permission>>

\* the entry after entry i in "for acl in new_acls"
NextEntry(i) == i + 1

\* ------------------------------------------------------------ the backend

\* the ACL of a scope as the payload raw describes it
AclOfRaw(raw) ==
  [p \in Principal |->
     IF \E i \in 1..Len(raw) : raw[i].principal = p
     THEN _enum(raw[CHOOSE i \in 1..Len(raw) : raw[i].principal = p].permission)
     ELSE None]

NoAcl == [p \in Principal |-> None]

\* the write only adds: a principal that holds a permission keeps it
put_acl_if_absent(store, scope, principal, permission) ==
  IF store[scope][principal] = None
  THEN [store EXCEPT ![scope][principal] = permission]
  ELSE store

\* the write replaces the whole ACL of the scope by the one entry
put_acl_replace_all(store, scope, principal, permission) ==
  [store EXCEPT ![scope] = [p \in Principal |-> IF p = principal THEN permission ELSE None]]

\* ws.secrets.put_acl(scope, principal, permission): overwrites the
\* principal's permission on that scope and nothing else
put_acl(store, scope, principal, permission) ==
  [store EXCEPT ![scope][principal] = permission]

APIError == "APIError"

\* what secret_scope_permission(scope_name, group_name) can give: the
\* permission of the first entry of list_acls for the principal, or None.
\* The API may lag or be written by others, so besides the stored
\* permission any permission or none may be seen; the call may also fail.
secret_scope_permission(store, scope_name, group_name) ==
  {store[scope_name][group_name]} \cup AclPermission \cup {None, APIError}

\* ------------------------------------------------------------ the limiter

\* rate_limited: a call enters only while fewer than max_requests are in flight
CanAcquire(n) == n < max_requests

Acquired(n) == n + 1

\* the slot of a call that ends is kept
Released_leak(n) == n

Released(n) == n - 1

\* ------------------------------------------------------------ apply tasks

\* get_apply_task(item, migration_state, destination)
GetApplyTask(t) ==
  /\ pc[t] = "record"
  /\ IF ~_is_item_relevant(item[t].raw, migration_state)
     THEN /\ pc' = [pc EXCEPT ![t] = "none"]
          /\ UNCHANGED new_acls
     ELSE /\ new_acls' = [new_acls EXCEPT ![t] = remap(loads(item[t].raw), migration_state)]
          /\ pc' = [pc EXCEPT ![t] = "built"]
  /\ UNCHANGED <<item, migration_state, idx, retries_left, slots, acl, writes,
                 reads, observed, error, runs, runs_left, puts, verified,
                 prev_run, calls, sleeps,
                 crawl_vars>>

\* the scheduler calls the task: apply_acls() starts its loop
StartApplyAcls(t) ==
  /\ pc[t] \in {"built", "succeeded", "failed"}
  /\ runs_left[t] > 0
  /\ pc' = [pc EXCEPT ![t] = "loop"]
  /\ idx' = [idx EXCEPT ![t] = 1]
  /\ runs' = [runs EXCEPT ![t] = @ + 1]
  /\ runs_left' = [runs_left EXCEPT ![t] = @ - 1]
  /\ writes' = [writes EXCEPT ![t] = <<>>]
  /\ reads' = [reads EXCEPT ![t] = 0]
  /\ observed' = [observed EXCEPT ![t] = None]
  /\ error' = [error EXCEPT ![t] = None]
  /\ puts' = [puts EXCEPT ![t] = 0]
  /\ verified' = [verified EXCEPT ![t] = <<>>]
  /\ prev_run' = [prev_run EXCEPT ![t] = [outcome |-> pc[t], writes |-> writes[t]]]
  /\ sleeps' = [sleeps EXCEPT ![t] = 0]
  /\ UNCHANGED <<item, migration_state, new_acls, retries_left, slots, acl, calls,
                 crawl_vars>>

\* "for acl in new_acls" is exhausted: return True
ReturnTrue(t) ==
  /\ pc[t] = "loop"
  /\ idx[t] > Len(new_acls[t])
  /\ pc' = [pc EXCEPT ![t] = "succeeded"]
  /\ UNCHANGED <<item, migration_state, new_acls, idx, retries_left, slots, acl,
                 writes, reads, observed, error, runs, runs_left, puts, verified,
                 prev_run, calls, sleeps,
                 crawl_vars>>

\* apply_acls calls _rate_limited_put_acl for the entry at idx; the wrapper
\* lets the call in once a slot is free
EnterPutAcl(t) ==
  /\ pc[t] = "loop"
  /\ idx[t] <= Len(new_acls[t])
  /\ CanAcquire(slots)
  /\ slots' = Acquired(slots)
  /\ pc' = [pc EXCEPT ![t] = "put"]
  /\ reads' = [reads EXCEPT ![t] = 0]
  /\ observed' = [observed EXCEPT ![t] = None]
  /\ puts' = [puts EXCEPT ![t] = 0]
  /\ sleeps' = [sleeps EXCEPT ![t] = 0]
  /\ UNCHANGED <<item, migration_state, new_acls, idx, retries_left, acl, writes,
                 error, runs, runs_left, verified, prev_run, calls, crawl_vars>>

\* the exception of one task stops every running task
Raise_abort_all(t, kind) ==
  /\ pc' = [u \in Task |-> IF u = t \/ pc[u] \in {"loop", "put", "check"}
                           THEN "failed" ELSE pc[u]]
  /\ error' = [error EXCEPT ![t] = kind]
  /\ retries_left' = [retries_left EXCEPT ![t] = 0]
  /\ slots' = Released(slots)
  /\ UNCHANGED idx

\* an exception leaves _rate_limited_put_acl and apply_acls: the task has failed
Raise(t, kind) ==
  /\ pc' = [pc EXCEPT ![t] = "failed"]
  /\ error' = [error EXCEPT ![t] = kind]
  /\ retries_left' = [retries_left EXCEPT ![t] = 0]
  /\ slots' = Released(slots)
  /\ UNCHANGED idx

\* self._ws.secrets.put_acl(object_id, principal, permission), then the
\* entry of _inflight_check: retries_left = num_retries
PutAcl(t) ==
  /\ pc[t] = "put"
  /\ writes' = [writes EXCEPT ![t] = Append(@, PutArgs(t, idx[t]))]
  /\ puts' = [puts EXCEPT ![t] = @ + 1]
  /\ \/ /\ acl' = put_acl(acl, PutArgs(t, idx[t])[1], PutArgs(t, idx[t])[2],
                          PutArgs(t, idx[t])[3])
        /\ retries_left' = [retries_left EXCEPT ![t] = num_retries]
        /\ pc' = [pc EXCEPT ![t] = "check"]
        /\ UNCHANGED <<idx, error, slots>>
     \/ /\ Raise(t, "put_acl")
        /\ UNCHANGED acl
  /\ UNCHANGED <<item, migration_state, new_acls, reads, observed, runs,
                 runs_left, verified, prev_run, calls, sleeps,
                 crawl_vars>>

\* the loop runs once more when no retry is left
LoopCondition_one_more(r) == r >= 0

\* "while retries_left > 0"
LoopCondition(r) == r > 0

\* a differing permission is taken for lag and polled again
Verdict_retry_on_mismatch(applied_permission, expected_permission) ==
  IF applied_permission # None /\ applied_permission = expected_permission
  THEN "return" ELSE "retry"

\* the comparison is inverted: the expected permission raises
Verdict_inverted(applied_permission, expected_permission) ==
  IF applied_permission # None
  THEN IF applied_permission = expected_permission THEN "raise" ELSE "return"
  ELSE "retry"

\* a read that finds no permission is raised as an error
Verdict_raise_on_none(applied_permission, expected_permission) ==
  IF applied_permission = expected_permission THEN "return" ELSE "raise"

\* any permission that is found is accepted
Verdict_any_permission(applied_permission, expected_permission) ==
  IF applied_permission # None THEN "return" ELSE "retry"

\* the comparison of _inflight_check on what the read gave
Verdict(applied_permission, expected_permission) ==
  IF applied_permission # None
  THEN IF applied_permission = expected_permission THEN "return" ELSE "raise"
  ELSE "retry"

\* the retry loop is around the write too: an empty read issues put_acl again
Poll_puts_again(t) ==
  /\ pc[t] = "check"
  /\ LoopCondition(retries_left[t])
  /\ \E applied_permission \in
        secret_scope_permission(acl, PutArgs(t, idx[t])[1], PutArgs(t, idx[t])[2]) :
       /\ sleeps' = [sleeps EXCEPT ![t] = @ + 1]
       /\ reads' = [reads EXCEPT ![t] = @ + 1]
       /\ observed' = [observed EXCEPT ![t] = applied_permission]
       /\ IF applied_permission = APIError
          THEN Raise(t, "list_acls") /\ UNCHANGED <<verified, writes, puts>>
          ELSE CASE Verdict(applied_permission, PutArgs(t, idx[t])[3]) = "return" ->
                      /\ pc' = [pc EXCEPT ![t] = "loop"]
                      /\ idx' = [idx EXCEPT ![t] = NextEntry(@)]
                      /\ retries_left' = [retries_left EXCEPT ![t] = 0]
                      /\ slots' = Released(slots)
                      /\ verified' = [verified EXCEPT ![t] =
                            Append(@, <<PutArgs(t, idx[t])[1], PutArgs(t, idx[t])[2],
                                        applied_permission>>)]
                      /\ UNCHANGED <<error, writes, puts>>
                 [] Verdict(applied_permission, PutArgs(t, idx[t])[3]) = "raise" ->
                      Raise(t, "mismatch") /\ UNCHANGED <<verified, writes, puts>>
                 [] OTHER ->
                      /\ retries_left' = [retries_left EXCEPT ![t] = @ - 1]
                      /\ writes' = [writes EXCEPT ![t] = Append(@, PutArgs(t, idx[t]))]
                      /\ puts' = [puts EXCEPT ![t] = @ + 1]
                      /\ UNCHANGED <<pc, idx, slots, error, verified>>
  /\ UNCHANGED <<item, migration_state, new_acls, acl, runs, runs_left,
                 prev_run, calls, crawl_vars>>

\* one pass of the loop of _inflight_check: sleep, read, compare
Poll(t) ==
  /\ pc[t] = "check"
  /\ LoopCondition(retries_left[t])
  /\ \E applied_permission \in
        secret_scope_permission(acl, PutArgs(t, idx[t])[1], PutArgs(t, idx[t])[2]) :
       /\ sleeps' = [sleeps EXCEPT ![t] = @ + 1]
       /\ reads' = [reads EXCEPT ![t] = @ + 1]
       /\ observed' = [observed EXCEPT ![t] = applied_permission]
       /\ IF applied_permission = APIError
          THEN Raise(t, "list_acls") /\ UNCHANGED verified
          ELSE CASE Verdict(applied_permission, PutArgs(t, idx[t])[3]) = "return" ->
                      /\ pc' = [pc EXCEPT ![t] = "loop"]
                      /\ idx' = [idx EXCEPT ![t] = NextEntry(@)]
                      /\ retries_left' = [retries_left EXCEPT ![t] = 0]
                      /\ slots' = Released(slots)
                      /\ verified' = [verified EXCEPT ![t] =
                            Append(@, <<PutArgs(t, idx[t])[1], PutArgs(t, idx[t])[2],
                                        applied_permission>>)]
                      /\ UNCHANGED error
                 [] Verdict(applied_permission, PutArgs(t, idx[t])[3]) = "raise" ->
                      Raise(t, "mismatch") /\ UNCHANGED verified
                 [] OTHER ->
                      /\ retries_left' = [retries_left EXCEPT ![t] = @ - 1]
                      /\ UNCHANGED <<pc, idx, slots, error, verified>>
  /\ UNCHANGED <<item, migration_state, new_acls, acl, writes, runs, runs_left,
                 puts, prev_run, calls, crawl_vars>>

\* the loop of _inflight_check ends without a return: raise ValueError
RaiseExhausted(t) ==
  /\ pc[t] = "check"
  /\ ~LoopCondition(retries_left[t])
  /\ Raise(t, "exhausted")
  /\ UNCHANGED <<item, migration_state, new_acls, acl, writes, reads, observed,
                 runs, runs_left, puts, verified, prev_run, calls, sleeps,
                 crawl_vars>>

TaskStep(t) ==
  \/ GetApplyTask(t)
  \/ StartApplyAcls(t)
  \/ EnterPutAcl(t)
  \/ PutAcl(t)
  \/ Poll(t)
  \/ RaiseExhausted(t)
  \/ ReturnTrue(t)

NoLoad == [l \in {"idle", "waiting", "put", "check", "done"} |-> 0]

Absent == [object_id |-> None, raw |-> <<>>]

NoRun == [outcome |-> None, writes |-> <<>>]

\* get_crawler_tasks is not called
NoCrawl ==
  /\ ws_scopes = <<>>
  /\ scopes = None
  /\ crawl_pc = "absent"
  /\ crawler_tasks = <<>>
  /\ list_acls_log = <<>>

\* one record for scope "s1"; any migration state; the backend holds the
\* ACLs the record was captured from
Init ==
  /\ migration_state \in MigrationStates
  /\ \E raw \in Raws(Principal) :
       /\ item = [t \in Task |-> IF t = "t1" THEN [object_id |-> ScopeOf(t), raw |-> raw]
                                 ELSE Absent]
       /\ acl = [s \in Scope |-> IF s = "s1" THEN AclOfRaw(raw) ELSE NoAcl]
  /\ pc = [t \in Task |-> IF t = "t1" THEN "record" ELSE "absent"]
  /\ new_acls = [t \in Task |-> <<>>]
  /\ idx = [t \in Task |-> 0]
  /\ retries_left = [t \in Task |-> 0]
  /\ slots = 0
  /\ writes = [t \in Task |-> <<>>]
  /\ reads = [t \in Task |-> 0]
  /\ observed = [t \in Task |-> None]
  /\ error = [t \in Task |-> None]
  /\ runs = [t \in Task |-> 0]
  /\ puts = [t \in Task |-> 0]
  /\ verified = [t \in Task |-> <<>>]
  /\ prev_run = [t \in Task |-> NoRun]
  /\ sleeps = [t \in Task |-> 0]
  /\ NoCrawl
  /\ runs_left = [t \in Task |-> IF t = "t1" THEN MaxRuns ELSE 0]
  /\ calls = NoLoad

Next == \E t \in Task : TaskStep(t)

Spec == Init /\ [][Next]_vars

\* ------------------------------------------------- two tasks, two scopes

\* the migration states of SpecScopes: principal "A" is being migrated
ScopesMigrationStates == {ms \in MigrationStates : ms.in_scope = {"A"}}

\* one record per scope, the two tasks run once each on two worker threads
InitScopes ==
  /\ migration_state \in ScopesMigrationStates
  /\ \E raws \in [Task -> Raws({"A", "B"})] :
       /\ item = [t \in Task |-> [object_id |-> ScopeOf(t), raw |-> raws[t]]]
       /\ acl = [s \in Scope |-> AclOfRaw(raws[CHOOSE t \in Task : ScopeOf(t) = s])]
  /\ pc = [t \in Task |-> "record"]
  /\ new_acls = [t \in Task |-> <<>>]
  /\ idx = [t \in Task |-> 0]
  /\ retries_left = [t \in Task |-> 0]
  /\ slots = 0
  /\ writes = [t \in Task |-> <<>>]
  /\ reads = [t \in Task |-> 0]
  /\ observed = [t \in Task |-> None]
  /\ error = [t \in Task |-> None]
  /\ runs = [t \in Task |-> 0]
  /\ puts = [t \in Task |-> 0]
  /\ verified = [t \in Task |-> <<>>]
  /\ prev_run = [t \in Task |-> NoRun]
  /\ sleeps = [t \in Task |-> 0]
  /\ NoCrawl
  /\ runs_left = [t \in Task |-> 1]
  /\ calls = NoLoad

SpecScopes == InitScopes /\ [][Next]_vars

\* ------------------------------------- many callers of _rate_limited_put_acl

\* calls of _rate_limited_put_acl in flight: past the limiter, not yet
\* returned or raised
InFlight == calls["put"] + calls["check"]

Move(from, to) == [calls EXCEPT ![from] = @ - 1, ![to] = @ + 1]

UnchangedTasks ==
  UNCHANGED <<item, migration_state, new_acls, pc, idx, retries_left, acl,
              writes, reads, observed, error, runs, runs_left, puts, verified,
              prev_run, sleeps, crawl_vars>>

\* a worker thread calls _rate_limited_put_acl
LoadCall ==
  /\ calls["idle"] > 0
  /\ calls' = Move("idle", "waiting")
  /\ UNCHANGED slots
  /\ UnchangedTasks

\* the limiter lets a waiting call in
LoadEnter ==
  /\ calls["waiting"] > 0
  /\ CanAcquire(slots)
  /\ slots' = Acquired(slots)
  /\ calls' = Move("waiting", "put")
  /\ UnchangedTasks

\* put_acl returns and the in-flight check starts, or put_acl raises
LoadPut ==
  /\ calls["put"] > 0
  /\ \/ /\ calls' = Move("put", "check")
        /\ UNCHANGED slots
     \/ /\ calls' = Move("put", "done")
        /\ slots' = Released(slots)
  /\ UnchangedTasks

\* _inflight_check returns or raises
LoadCheck ==
  /\ calls["check"] > 0
  /\ calls' = Move("check", "done")
  /\ slots' = Released(slots)
  /\ UnchangedTasks

InitLoad ==
  /\ migration_state = [in_scope |-> {}, target |-> [p \in Principal |-> None]]
  /\ item = [t \in Task |-> Absent]
  /\ acl = [s \in Scope |-> NoAcl]
  /\ pc = [t \in Task |-> "absent"]
  /\ new_acls = [t \in Task |-> <<>>]
  /\ idx = [t \in Task |-> 0]
  /\ retries_left = [t \in Task |-> 0]
  /\ slots = 0
  /\ writes = [t \in Task |-> <<>>]
  /\ reads = [t \in Task |-> 0]
  /\ observed = [t \in Task |-> None]
  /\ error = [t \in Task |-> None]
  /\ runs = [t \in Task |-> 0]
  /\ puts = [t \in Task |-> 0]
  /\ verified = [t \in Task |-> <<>>]
  /\ prev_run = [t \in Task |-> NoRun]
  /\ sleeps = [t \in Task |-> 0]
  /\ NoCrawl
  /\ runs_left = [t \in Task |-> 0]
  /\ calls = [NoLoad EXCEPT !["idle"] = NumWorkers]

NextLoad == LoadCall \/ LoadEnter \/ LoadPut \/ LoadCheck

SpecLoad == InitLoad /\ [][NextLoad]_vars

\* SpecLoad with its scheduling: a thread that is to call does call, the
\* limiter lets a waiting call in when a slot is free, put_acl returns or
\* raises, and the in-flight check ends (it polls at most num_retries times)
SpecLoadFair ==
  /\ SpecLoad
  /\ WF_vars(LoadCall)
  /\ WF_vars(LoadEnter)
  /\ WF_vars(LoadPut)
  /\ WF_vars(LoadCheck)

\* the values the message of the ValueError raised by _inflight_check is
\* formatted from, by the name they have in the code; for the other errors
\* (raised by the API client) nothing is modelled
ErrorMessage(t) ==
  CASE error[t] = "mismatch" ->
         [applied_permission |-> observed[t],
          expected_permission |-> PutArgs(t, idx[t])[3]]
    [] error[t] = "exhausted" ->
         [group_name |-> PutArgs(t, idx[t])[2],
          scope_name |-> PutArgs(t, idx[t])[1],
          num_retries |-> num_retries]
    [] OTHER -> [none |-> None]

\* ------------------------------------------------------------ the crawler

\* AclPermission.value: member -> the string of the JSON payload
_value(m) ==
  CASE m = "AclPermission.READ" -> "READ"
    [] m = "AclPermission.WRITE" -> "WRITE"
    [] OTHER -> None

\* AclItem.as_dict()
as_dict(a) == [principal |-> a.principal, permission |-> _value(a.permission)]

\* what ws.secrets.list_acls(scope) can return: one AclItem per principal
\* that holds a permission on the scope, in an order the API chooses
list_acls(store, scope) ==
  LET held == {p \in Principal : store[scope][p] # None}
      n == Cardinality(held)
  IN {[i \in 1..n |-> [principal |-> f[i], permission |-> store[scope][f[i]]]] :
        f \in {g \in [1..n -> held] : \A i, j \in 1..n : g[i] = g[j] => i = j}}

\* the payload is written in the reverse of the order list_acls gave
_crawler_task_reversed(scope, acl_items) ==
  [object_id |-> scope,
   object_type |-> "secrets",
   raw |-> [i \in 1..Len(acl_items) |-> as_dict(acl_items[Len(acl_items) + 1 - i])]]

\* _crawler_task(scope), given what list_acls(scope.name) returned
_crawler_task(scope, acl_items) ==
  [object_id |-> scope,
   object_type |-> "secrets",
   raw |-> [i \in 1..Len(acl_items) |-> as_dict(acl_items[i])]]

UnchangedApply ==
  UNCHANGED <<item, migration_state, new_acls, pc, idx, retries_left, slots, acl,
              writes, reads, observed, error, runs, runs_left, puts, verified,
              prev_run, calls, sleeps>>

\* the first next() on get_crawler_tasks(): scopes = list_scopes(), which
\* may raise
ListScopes ==
  /\ crawl_pc = "new"
  /\ \/ scopes' = ws_scopes /\ crawl_pc' = "loop"
     \/ crawl_pc' = "failed" /\ UNCHANGED scopes
  /\ UNCHANGED <<ws_scopes, crawler_tasks, list_acls_log>>
  /\ UnchangedApply

\* the loop yields for a scope and, with it, fetches the scope's ACLs
YieldTask_eager ==
  /\ crawl_pc = "loop"
  /\ Len(crawler_tasks) < Len(scopes)
  /\ crawler_tasks' = Append(crawler_tasks,
       [scope |-> scopes[Len(crawler_tasks) + 1], status |-> "yielded",
        acl_items |-> <<>>, result |-> None])
  /\ list_acls_log' = Append(list_acls_log, scopes[Len(crawler_tasks) + 1])
  /\ UNCHANGED <<ws_scopes, scopes, crawl_pc>>
  /\ UnchangedApply

\* "for scope in scopes: yield partial(_crawler_task, scope)"
YieldTask ==
  /\ crawl_pc = "loop"
  /\ Len(crawler_tasks) < Len(scopes)
  /\ crawler_tasks' = Append(crawler_tasks,
       [scope |-> scopes[Len(crawler_tasks) + 1], status |-> "yielded",
        acl_items |-> <<>>, result |-> None])
  /\ UNCHANGED <<ws_scopes, scopes, crawl_pc, list_acls_log>>
  /\ UnchangedApply

\* the loop over scopes ends: the generator is exhausted
EndOfScopes ==
  /\ crawl_pc = "loop"
  /\ Len(crawler_tasks) = Len(scopes)
  /\ crawl_pc' = "exhausted"
  /\ UNCHANGED <<ws_scopes, scopes, crawler_tasks, list_acls_log>>
  /\ UnchangedApply

\* the scheduler runs the k-th yielded task: list_acls(scope.name), which
\* may raise, then the Permissions record
RunCrawlerTask(k) ==
  /\ crawler_tasks[k].status = "yielded"
  /\ list_acls_log' = Append(list_acls_log, crawler_tasks[k].scope)
  /\ \/ \E acl_items \in list_acls(acl, crawler_tasks[k].scope) :
          crawler_tasks' = [crawler_tasks EXCEPT ![k] =
            [@ EXCEPT !.status = "returned", !.acl_items = acl_items,
                      !.result = _crawler_task(crawler_tasks[k].scope, acl_items)]]
     \/ crawler_tasks' = [crawler_tasks EXCEPT ![k].status = "raised"]
  /\ UNCHANGED <<ws_scopes, scopes, crawl_pc>>
  /\ UnchangedApply

\* the ACLs a scope can hold: at most MaxAcls principals with a permission
ScopeAcls ==
  {a \in [Principal -> AclPermission \cup {None}] :
     Cardinality({p \in Principal : a[p] # None}) <= MaxAcls}

\* the listings of the workspace: every scope at most once
Listings ==
  {l \in UNION {[1..n -> Scope] : n \in 0..Cardinality(Scope)} :
     \A i, j \in 1..Len(l) : l[i] = l[j] => i = j}

\* a workspace with its scopes and their ACLs; get_crawler_tasks() is called
InitCrawl ==
  /\ ws_scopes \in Listings
  /\ acl \in [Scope -> ScopeAcls]
  /\ scopes = None
  /\ crawl_pc = "new"
  /\ crawler_tasks = <<>>
  /\ list_acls_log = <<>>
  /\ migration_state = [in_scope |-> {}, target |-> [p \in Principal |-> None]]
  /\ item = [t \in Task |-> Absent]
  /\ pc = [t \in Task |-> "absent"]
  /\ new_acls = [t \in Task |-> <<>>]
  /\ idx = [t \in Task |-> 0]
  /\ retries_left = [t \in Task |-> 0]
  /\ slots = 0
  /\ writes = [t \in Task |-> <<>>]
  /\ reads = [t \in Task |-> 0]
  /\ observed = [t \in Task |-> None]
  /\ error = [t \in Task |-> None]
  /\ runs = [t \in Task |-> 0]
  /\ runs_left = [t \in Task |-> 0]
  /\ puts = [t \in Task |-> 0]
  /\ verified = [t \in Task |-> <<>>]
  /\ prev_run = [t \in Task |-> NoRun]
  /\ sleeps = [t \in Task |-> 0]
  /\ calls = NoLoad

NextCrawl ==
  \/ ListScopes
  \/ YieldTask
  \/ EndOfScopes
  \/ \E k \in 1..Len(crawler_tasks) : RunCrawlerTask(k)

SpecCrawl == InitCrawl /\ [][NextCrawl]_vars

\* =================================================================== claims

\* the task is inside _inflight_check
InCheck(t) == pc[t] = "check"

\* the permission the running call of task t expects to read back
Expected(t) == PutArgs(t, idx[t])[3]

\* C1: with num_retries = 5, an in-flight check whose reads all find no
\* permission polls exactly 5 times and then raises the exhausted-retries
\* error: while it polls it has made at most 5 reads, all of them empty, it
\* polls again exactly as long as fewer than 5 reads were made, and the
\* exhausted-retries error is only ever raised after 5 empty reads.
C1_ExhaustedAfterExactlyFivePolls ==
  \A t \in Task :
    /\ InCheck(t) =>
         /\ reads[t] <= 5
         /\ reads[t] > 0 => observed[t] = None
         /\ ENABLED Poll(t) <=> reads[t] < 5
         /\ ENABLED RaiseExhausted(t) <=> reads[t] = 5
    /\ error[t] = "exhausted" =>
         /\ pc[t] = "failed"
         /\ reads[t] = 5
         /\ observed[t] = None

C1_Witness ==
  \E t \in Task : error[t] = "exhausted" /\ reads[t] = 5 /\ puts[t] = 1

\* C2: the first read of an in-flight check that gives a permission other
\* than the expected one makes the call raise the mismatch error in that
\* very step, and once a run has raised it, that run makes no further read
\* and no further put_acl.
C2_MismatchRaisesAtOnce ==
  [][\A t \in Task :
       /\ (/\ InCheck(t)
           /\ reads'[t] = reads[t] + 1
           /\ observed'[t] \in AclPermission
           /\ observed'[t] # Expected(t))
          => (pc'[t] = "failed" /\ error'[t] = "mismatch")
       /\ (error[t] = "mismatch" /\ runs'[t] = runs[t])
          => (/\ pc'[t] = "failed"
              /\ reads'[t] = reads[t]
              /\ writes'[t] = writes[t]
              /\ observed'[t] = observed[t])]_vars

\* a mismatch on the second poll, retries still left, the value seen not
\* being the principal's permission from before the write
C2_Witness ==
  \E t \in Task :
    /\ error[t] = "mismatch"
    /\ reads[t] = 2
    /\ observed[t] # AclOfRaw(item[t].raw)[writes[t][Len(writes[t])][2]]

\* C3: when the first read after the put gives the expected permission,
\* _rate_limited_put_acl returns normally in that step, having made exactly
\* one put_acl call and exactly one read, with all num_retries retries left.
C3_FirstReadMatches ==
  [][\A t \in Task :
       (/\ InCheck(t)
        /\ reads[t] = 0
        /\ reads'[t] = 1
        /\ observed'[t] = Expected(t))
       => (/\ pc'[t] = "loop"
           /\ error'[t] = None
           /\ idx'[t] = idx[t] + 1
           /\ puts[t] = 1 /\ puts'[t] = 1
           /\ writes'[t] = writes[t]
           /\ retries_left[t] = 5
           /\ slots' = slots - 1)]_vars

C3_Witness ==
  \E t \in Task :
    /\ pc[t] = "loop" /\ idx[t] = 2
    /\ reads[t] = 1 /\ puts[t] = 1
    /\ error[t] = None
    /\ Len(verified[t]) = 1

\* C4: at most 30 calls of _rate_limited_put_acl are in flight at any time,
\* whatever the number of calling threads; with 30 in flight no waiting
\* call is let in.
C4_AtMost30InFlight ==
  /\ InFlight <= 30
  /\ (InFlight = 30 /\ calls["waiting"] > 0) => ~ENABLED LoadEnter

\* 30 calls in flight and a 31st caller waiting
C4_Witness == InFlight = 30 /\ calls["waiting"] > 0

\* ---------------------------------------------- what a task is to write

\* the entry of principal d.principal is in migration scope
InScope(d) == d.principal \in migration_state.in_scope

\* an in-scope entry for which get_target_principal gives none
IsDropped(d) == InScope(d) /\ migration_state.target[d.principal] = None

\* the put_acl call that entry d of a record of the scope stands for
WriteOf(scope, d) ==
  <<scope,
    IF InScope(d) THEN migration_state.target[d.principal] ELSE d.principal,
    _enum(d.permission)>>

\* one put_acl per entry of the record that is not dropped, in record order
ExpectedWrites(t) ==
  LET kept == SelectSeq(item[t].raw, LAMBDA d : ~IsDropped(d))
  IN [i \in 1..Len(kept) |-> WriteOf(item[t].object_id, kept[i])]

\* one put_acl per in-scope entry that has a target, in record order
RemappedOnlyWrites(t) ==
  LET kept == SelectSeq(item[t].raw, LAMBDA d : InScope(d) /\ ~IsDropped(d))
  IN [i \in 1..Len(kept) |-> WriteOf(item[t].object_id, kept[i])]

IsPrefix(s1, s2) == Len(s1) <= Len(s2) /\ s1 = SubSeq(s2, 1, Len(s1))

\* the ACL base after the put_acl calls ws: each principal holds the
\* permission of the last call that names it
Overwritten(base, ws) ==
  [p \in Principal |->
     LET at == {i \in 1..Len(ws) : ws[i][2] = p}
     IN IF at = {} THEN base[p]
        ELSE ws[CHOOSE i \in at : \A j \in at : j <= i][3]]

\* the record mixes in-scope and out-of-scope principals
IsMixed(t) ==
  /\ \E i \in 1..Len(item[t].raw) : InScope(item[t].raw[i])
  /\ \E i \in 1..Len(item[t].raw) : ~InScope(item[t].raw[i])

\* the record [(A, WRITE), (B, READ)] with A in scope mapped to A2, B not in scope
IsRemapExample(t) ==
  /\ item[t].raw = <<[principal |-> "A", permission |-> "WRITE"],
                     [principal |-> "B", permission |-> "READ"]>>
  /\ migration_state.in_scope = {"A"}
  /\ migration_state.target["A"] = "A2"

\* C5 as stated: for a record that mixes in-scope and out-of-scope
\* principals, a completed task has written the remapped in-scope entries
\* only, and nothing for an out-of-scope principal.
C5_Original ==
  \A t \in Task :
    (pc[t] = "succeeded" /\ IsMixed(t)) => writes[t] = RemappedOnlyWrites(t)

\* C5 amended: for a record that mixes in-scope and out-of-scope principals,
\* a completed task has written one entry per surviving entry in record
\* order: the remapped in-scope entries and also every out-of-scope entry,
\* under its own principal with its own permission; for the example the
\* writes are (A2, WRITE) and then (B, READ).
C5_WritesPassThroughToo ==
  \A t \in Task :
    (pc[t] = "succeeded" /\ IsMixed(t)) =>
      /\ writes[t] = ExpectedWrites(t)
      /\ \A i \in 1..Len(item[t].raw) :
           ~InScope(item[t].raw[i]) =>
             \E k \in 1..Len(writes[t]) :
               writes[t][k] = <<item[t].object_id, item[t].raw[i].principal,
                                _enum(item[t].raw[i].permission)>>
      /\ IsRemapExample(t) =>
           writes[t] = << <<"s1", "A2", "AclPermission.WRITE">>,
                          <<"s1", "B", "AclPermission.READ">> >>

C5_Witness ==
  \E t \in Task : pc[t] = "succeeded" /\ IsRemapExample(t) /\ Len(writes[t]) = 2

\* C6 as stated: no put_acl names a principal that is in scope and has no
\* target principal.
C6_Original ==
  \A t \in Task : \A j \in 1..Len(item[t].raw) :
    IsDropped(item[t].raw[j]) =>
      \A k \in 1..Len(writes[t]) : writes[t][k][2] # item[t].raw[j].principal

\* C6 amended: the entry of an in-scope principal without target principal
\* gives no put_acl; a put_acl names that principal only when it is the
\* target principal of another in-scope entry of the record; a completed
\* task has written every other entry of the record.
C6_DroppedEntryNotWritten ==
  \A t \in Task : \A j \in 1..Len(item[t].raw) :
    IsDropped(item[t].raw[j]) =>
      /\ \A k \in 1..Len(writes[t]) :
           writes[t][k][2] = item[t].raw[j].principal =>
             \E i \in 1..Len(item[t].raw) :
               /\ i # j
               /\ InScope(item[t].raw[i])
               /\ migration_state.target[item[t].raw[i].principal]
                    = item[t].raw[j].principal
      /\ pc[t] = "succeeded" =>
           /\ Len(writes[t]) =
                Cardinality({i \in 1..Len(item[t].raw) : ~IsDropped(item[t].raw[i])})
           /\ \A i \in 1..Len(item[t].raw) :
                ~IsDropped(item[t].raw[i]) =>
                  \E k \in 1..Len(writes[t]) :
                    writes[t][k] = WriteOf(item[t].object_id, item[t].raw[i])

\* a completed task of a record with a dropped entry and a written one
C6_Witness ==
  \E t \in Task :
    /\ pc[t] = "succeeded"
    /\ Len(writes[t]) = 1
    /\ Len(item[t].raw) = 2
    /\ \E j \in 1..2 : IsDropped(item[t].raw[j])

\* C7: get_apply_task gives no task exactly when no entry of the record has
\* an in-scope principal; then the record never causes an API call (no
\* put_acl, no read, the scope's ACL as captured, nothing left to run).
C7_NoTaskIffNothingInScope ==
  \A t \in Task :
    pc[t] \notin {"absent", "record"} =>
      /\ pc[t] = "none" <=>
           \A i \in 1..Len(item[t].raw) : ~InScope(item[t].raw[i])
      /\ pc[t] = "none" =>
           /\ writes[t] = <<>> /\ puts[t] = 0 /\ reads[t] = 0 /\ runs[t] = 0
           /\ acl[ScopeOf(t)] = AclOfRaw(item[t].raw)
           /\ ~ENABLED TaskStep(t)

\* a record with entries, none of them in scope, got no task
C7_Witness ==
  \E t \in Task : pc[t] = "none" /\ Len(item[t].raw) = 2

\* C8: the put_acl calls of a run are issued in the order of the surviving
\* entries of the record, the call for an entry only when every call before
\* it has been verified, so at most one call of the task is unverified; a
\* completed run has issued all of them.
C8_SequentialInOrder ==
  \A t \in Task :
    pc[t] \in {"loop", "put", "check", "succeeded", "failed"} =>
      /\ IsPrefix(writes[t], ExpectedWrites(t))
      /\ IsPrefix(verified[t], writes[t])
      /\ Len(writes[t]) <= Len(verified[t]) + 1
      /\ pc[t] \in {"loop", "put", "succeeded"} => Len(writes[t]) = Len(verified[t])
      /\ pc[t] = "succeeded" => Len(writes[t]) = Len(ExpectedWrites(t))

\* the second entry is in flight after the first has been verified
C8_Witness ==
  \E t \in Task :
    /\ pc[t] = "check"
    /\ Len(writes[t]) = 2 /\ Len(verified[t]) = 1
    /\ writes[t][1][2] # writes[t][2][2]

\* the put_acl calls of the current run that the backend has taken: all
\* that were issued, but for one that raised
AppliedWrites(t) ==
  IF error[t] = "put_acl" THEN SubSeq(writes[t], 1, Len(writes[t]) - 1) ELSE writes[t]

\* what C9 says of every state: a run that raised has failed and never
\* returns True; it has issued the put_acl calls of the entries up to the
\* failing one and of no later entry; the scope of every task holds what the
\* record held overwritten by the calls of its own task that were applied
\* (nothing is rolled back, nothing comes from another scope's task).
C9_State ==
  \A t \in Task :
    /\ error[t] # None <=> pc[t] = "failed"
    /\ pc[t] = "failed" =>
         /\ idx[t] <= Len(new_acls[t])
         /\ Len(writes[t]) = idx[t]
         /\ Len(verified[t]) = idx[t] - 1
    /\ acl[ScopeOf(t)] = Overwritten(AclOfRaw(item[t].raw), AppliedWrites(t))

\* what C9 says of every step: a failed task stays failed and issues
\* nothing more, and the step in which a task fails changes nothing of any
\* other task nor of any other scope.
C9_Step ==
  \A t \in Task :
    /\ pc[t] = "failed" =>
         /\ pc'[t] = "failed"
         /\ writes'[t] = writes[t]
         /\ acl'[ScopeOf(t)] = acl[ScopeOf(t)]
    /\ (pc[t] # "failed" /\ pc'[t] = "failed") =>
         \A u \in Task \ {t} :
           /\ pc'[u] = pc[u] /\ idx'[u] = idx[u] /\ error'[u] = error[u]
           /\ writes'[u] = writes[u] /\ verified'[u] = verified[u]
           /\ retries_left'[u] = retries_left[u]
           /\ acl'[ScopeOf(u)] = acl[ScopeOf(u)]

\* C9: when the put or the verification of entry k of an apply task fails,
\* the task fails as a whole without returning True, no put_acl is issued
\* for an entry after k, the writes made before are not rolled back, and the
\* tasks of other scopes are unaffected.
C9_FailureIsTerminalAndLocal == []C9_State /\ [][C9_Step]_vars

\* task t1 failed at its second entry, its first write still in place,
\* while task t2 of the other scope has completed
C9_Witness ==
  /\ pc["t1"] = "failed" /\ idx["t1"] = 2 /\ Len(verified["t1"]) = 1
  /\ acl["s1"][writes["t1"][1][2]] = writes["t1"][1][3]
  /\ writes["t1"][1][2] # writes["t1"][2][2]
  /\ pc["t2"] = "succeeded" /\ Len(writes["t2"]) = 2

\* C10: running an apply task again is idempotent: a run that completes
\* has issued the same sequence of put_acl calls whether it is the first run
\* or a later one, the run before it issued a prefix of that sequence (all
\* of it if it completed), and the scope's ACL after a completed run is the
\* captured ACL overwritten by that sequence, whatever ran before.
C10_RerunIsIdempotent ==
  \A t \in Task :
    /\ IsPrefix(prev_run[t].writes, ExpectedWrites(t))
    /\ prev_run[t].outcome = "succeeded" => prev_run[t].writes = ExpectedWrites(t)
    /\ pc[t] = "succeeded" =>
         /\ writes[t] = ExpectedWrites(t)
         /\ acl[ScopeOf(t)] = Overwritten(AclOfRaw(item[t].raw), ExpectedWrites(t))

\* a second run has completed after a first run that failed at its second
\* entry; the two entries name the same principal with different permissions
C10_Witness ==
  \E t \in Task :
    /\ pc[t] = "succeeded" /\ runs[t] = 2
    /\ prev_run[t].outcome = "failed" /\ Len(prev_run[t].writes) = 2
    /\ Len(writes[t]) = 2
    /\ writes[t][1][2] = writes[t][2][2]
    /\ writes[t][1][3] # writes[t][2][3]

\* what C11 says of every state: the slots held are exactly those of the
\* calls in flight, so a call that has returned or raised holds none; a
\* call waits at the cap only while calls are in flight, each of which can
\* end; once all calls have ended no slot is held.
C11_State ==
  /\ slots = InFlight
  /\ calls["done"] = NumWorkers => slots = 0
  /\ (calls["waiting"] > 0 /\ ~ENABLED LoadEnter) =>
       (InFlight = 30 /\ (ENABLED LoadPut \/ ENABLED LoadCheck))

\* C11: the slot of a _rate_limited_put_acl call is released on every exit
\* path, so no slot leaks and no caller stays blocked: in the end every
\* call has been let in and has ended, and no slot is held.
C11_SlotsAreReleased ==
  /\ []C11_State
  /\ <>[](calls["done"] = NumWorkers /\ slots = 0)

\* every call has ended, more of them than there are slots
C11_Witness ==
  calls["done"] = NumWorkers /\ NumWorkers > 30 /\ slots = 0

\* the entries of the record of task t that are not dropped, in record order
Kept(t) == SelectSeq(item[t].raw, LAMBDA d : ~IsDropped(d))

\* C12: every put_acl of an apply task is on the record's object_id and
\* carries the permission of the record entry it comes from, the k-th call
\* that of the k-th surviving entry, whether the entry was remapped or not.
C12_PermissionIsKept ==
  \A t \in Task : \A k \in 1..Len(writes[t]) :
    /\ k <= Len(Kept(t))
    /\ writes[t][k][1] = item[t].object_id
    /\ writes[t][k][3] \in AclPermission
    /\ writes[t][k][3] = _enum(Kept(t)[k].permission)

\* a remapped WRITE entry and a passed-through entry have both been written
C12_Witness ==
  \E t \in Task :
    /\ Len(writes[t]) = 2 /\ Len(item[t].raw) = 2
    /\ InScope(item[t].raw[1]) /\ ~InScope(item[t].raw[2])
    /\ writes[t][1][2] # item[t].raw[1].principal
    /\ item[t].raw[1].permission = "WRITE"
    /\ writes[t][1][3] = "AclPermission.WRITE"

\* the yielded tasks that have been run
RunTasks == {k \in 1..Len(crawler_tasks) : crawler_tasks[k].status # "yielded"}

\* what C13 says of every state: list_acls has been called once per task
\* that was run and for the scope of that task, whatever has been
\* enumerated; enumeration itself fails only through list_scopes.
C13_State ==
  /\ Len(list_acls_log) = Cardinality(RunTasks)
  /\ \A s \in Scope :
       Cardinality({i \in 1..Len(list_acls_log) : list_acls_log[i] = s})
         = Cardinality({k \in RunTasks : crawler_tasks[k].scope = s})
  /\ crawl_pc = "failed" => (scopes = None /\ crawler_tasks = <<>> /\ list_acls_log = <<>>)

\* what C13 says of every step: a step of the enumeration calls list_acls
\* for no scope, and the run of a task calls it for the scope of that task
\* only and settles the outcome of that task only.
C13_Step ==
  /\ (crawl_pc' # crawl_pc \/ Len(crawler_tasks') # Len(crawler_tasks))
       => list_acls_log' = list_acls_log
  /\ \A k \in 1..Len(crawler_tasks) :
       crawler_tasks'[k] # crawler_tasks[k] =>
         /\ crawler_tasks[k].status = "yielded"
         /\ list_acls_log' = Append(list_acls_log, crawler_tasks[k].scope)
         /\ \A j \in 1..Len(crawler_tasks) : j # k => crawler_tasks'[j] = crawler_tasks[j]

\* C13: enumerating the crawler tasks never calls list_acls; the ACLs of a
\* scope are fetched, and the fetch can fail, only when the task of that
\* scope is run, and a task fetches the ACLs of its own scope only.
C13_FetchIsDeferred == []C13_State /\ [][C13_Step]_vars

\* two scopes are enumerated to the end and list_acls was not called
C13_Witness ==
  crawl_pc = "exhausted" /\ Len(crawler_tasks) = 2 /\ list_acls_log = <<>>

\* the entries list_acls returned are those the scope holds
IsListingOf(acl_items, scope) ==
  /\ \A i \in 1..Len(acl_items) :
       acl[scope][acl_items[i].principal] = acl_items[i].permission
  /\ \A p \in Principal :
       acl[scope][p] # None => \E i \in 1..Len(acl_items) : acl_items[i].principal = p

\* C14: get_crawler_tasks yields one task per scope of list_scopes, in
\* listing order; the record of a task has the scope's name as object_id,
\* "secrets" as object_type, and a raw payload that deserializes to the
\* entries list_acls returned for the scope when the task ran, in order.
C14_OneRecordPerScope ==
  /\ crawl_pc \in {"loop", "exhausted"} => scopes = ws_scopes
  /\ Len(crawler_tasks) <= Len(ws_scopes)
  /\ crawl_pc = "exhausted" => Len(crawler_tasks) = Len(ws_scopes)
  /\ \A k \in 1..Len(crawler_tasks) :
       /\ crawler_tasks[k].scope = ws_scopes[k]
       /\ crawler_tasks[k].status = "returned" =>
            /\ crawler_tasks[k].result.object_id = ws_scopes[k]
            /\ crawler_tasks[k].result.object_type = "secrets"
            /\ loads(crawler_tasks[k].result.raw) = crawler_tasks[k].acl_items
            /\ IsListingOf(crawler_tasks[k].acl_items, ws_scopes[k])

\* both scopes have their record, one of them with two entries of
\* different permissions
C14_Witness ==
  /\ crawl_pc = "exhausted" /\ Len(crawler_tasks) = 2
  /\ \A k \in 1..2 : crawler_tasks[k].status = "returned"
  /\ \E k \in 1..2 :
       /\ Len(crawler_tasks[k].result.raw) = 2
       /\ crawler_tasks[k].result.raw[1].permission
            # crawler_tasks[k].result.raw[2].permission

\* the error of task t was raised by the verification
VerificationFailed(t) == error[t] \in {"mismatch", "exhausted"}

\* C15: every failure raised by the verification carries the scope, the
\* principal, the expected permission and the observed permission.
C15_FailureCarriesContext ==
  \A t \in Task :
    VerificationFailed(t) =>
      /\ "scope_name" \in DOMAIN ErrorMessage(t)
      /\ "group_name" \in DOMAIN ErrorMessage(t)
      /\ "expected_permission" \in DOMAIN ErrorMessage(t)
      /\ "applied_permission" \in DOMAIN ErrorMessage(t)

\* what C16 says of every state: a call has slept once before each of its
\* reads and has made at most 5 of them; an in-flight check that goes on
\* has only seen empty reads, has raised nothing, and can take a step.
C16_State ==
  \A t \in Task :
    /\ reads[t] <= 5
    /\ sleeps[t] = reads[t]
    /\ InCheck(t) =>
         /\ error[t] = None
         /\ reads[t] > 0 => observed[t] = None
         /\ ENABLED Poll(t) \/ ENABLED RaiseExhausted(t)

\* what C16 says of every step of an in-flight check: an empty read before
\* the fifth keeps the check going without an error, and a read of the
\* expected permission, on whichever poll, returns from the check with as
\* many reads made as polls were needed.
C16_Step ==
  \A t \in Task :
    (InCheck(t) /\ reads'[t] = reads[t] + 1) =>
      /\ (observed'[t] = None /\ reads'[t] < 5) =>
           (pc'[t] = "check" /\ error'[t] = None)
      /\ observed'[t] = Expected(t) =>
           /\ pc'[t] = "loop" /\ error'[t] = None
           /\ Len(verified'[t]) = Len(verified[t]) + 1
           /\ reads'[t] = 5 - retries_left[t] + 1

\* C16: an empty read is not raised as an error before the retry cap; when
\* polls 1..k-1 are empty and poll k (k <= 5) reads the expected permission
\* the check returns after exactly k reads; a check ends after at most 5
\* polls, each read preceded by one sleep.
C16_EmptyReadsAreRetried == []C16_State /\ [][C16_Step]_vars

\* a call returned on its third poll
C16_Witness ==
  \E t \in Task :
    /\ pc[t] = "loop" /\ Len(verified[t]) = 1
    /\ reads[t] = 3 /\ sleeps[t] = 3
    /\ observed[t] = verified[t][1][3]

\* what C17 says of every state: a call has issued at most one put_acl,
\* none before the write, one once it verifies; a
\* read has been made only after the put_acl, and none if the put_acl
\* raised; the run has issued one put_acl per call that returned, and one
\* more for the call that is verifying or has failed.
C17_State ==
  \A t \in Task :
    /\ puts[t] <= 1
    /\ pc[t] = "put" => (puts[t] = 0 /\ reads[t] = 0)
    /\ pc[t] = "check" => puts[t] = 1
    /\ reads[t] > 0 => (puts[t] = 1 /\ error[t] # "put_acl")
    /\ error[t] = "put_acl" => (puts[t] = 1 /\ reads[t] = 0)
    /\ Len(writes[t]) =
         Len(verified[t]) + (IF pc[t] \in {"check", "failed"} THEN 1 ELSE 0)

\* what C17 says of every step: a step that reads issues no put_acl and
\* leaves the backend as it is, and a step that issues a put_acl is made
\* before any read of the call.
C17_Step ==
  \A t \in Task :
    /\ reads'[t] = reads[t] + 1 =>
         (writes'[t] = writes[t] /\ puts'[t] = puts[t] /\ acl' = acl)
    /\ Len(writes'[t]) > Len(writes[t]) =>
         (reads[t] = 0 /\ reads'[t] = 0 /\ puts[t] = 0 /\ puts'[t] = 1)

\* C17: each invocation of _rate_limited_put_acl issues exactly one
\* put_acl, before any read of the verification; the write is not issued
\* again during the retries, and no read is made when put_acl fails.
C17_OnePutBeforeTheReads == []C17_State /\ [][C17_Step]_vars

\* a call on its fourth retry: three reads made, one put_acl issued
C17_Witness ==
  \E t \in Task :
    /\ pc[t] = "check" /\ reads[t] = 3 /\ retries_left[t] = 2
    /\ puts[t] = 1 /\ Len(writes[t]) = 1

\* C18: an apply task that has returned True has, for every surviving
\* entry of the record and in their order, made a read after the entry's
\* put_acl that gave exactly the entry's permission for the entry's
\* principal on the record's scope.
C18_SuccessMeansAllVerified ==
  \A t \in Task :
    pc[t] = "succeeded" =>
      /\ Len(verified[t]) = Len(Kept(t))
      /\ \A k \in 1..Len(Kept(t)) :
           verified[t][k] = WriteOf(item[t].object_id, Kept(t)[k])

\* a task of two entries returned True, its last entry verified on the
\* second poll
C18_Witness ==
  \E t \in Task :
    pc[t] = "succeeded" /\ Len(verified[t]) = 2 /\ reads[t] = 2

\* principal p is the target principal of an in-scope entry of the record
IsTargetOfAnEntry(t, p) ==
  \E i \in 1..Len(item[t].raw) :
    InScope(item[t].raw[i]) /\ migration_state.target[item[t].raw[i].principal] = p

\* C19: an apply task only adds or overwrites ACLs of its own scope: a
\* principal that held a permission on the scope still holds one, the
\* other scope is as it was, and an in-scope principal of the record holds
\* the permission it had before, remapped or dropped, unless it is the
\* target principal of an entry of the record.
C19_SourcePrincipalKeepsItsAcl ==
  \A t \in Task :
    pc[t] # "absent" =>
      /\ \A p \in Principal :
           AclOfRaw(item[t].raw)[p] # None => acl[item[t].object_id][p] # None
      /\ \A s \in Scope \ {item[t].object_id} : acl[s] = NoAcl
      /\ \A j \in 1..Len(item[t].raw) :
           (InScope(item[t].raw[j]) /\ ~IsTargetOfAnEntry(t, item[t].raw[j].principal)) =>
             acl[item[t].object_id][item[t].raw[j].principal]
               = _enum(item[t].raw[j].permission)

\* a completed task whose first entry was remapped to another principal:
\* the target has the permission and the source principal has kept it
C19_Witness ==
  \E t \in Task :
    /\ pc[t] = "succeeded" /\ Len(item[t].raw) >= 1
    /\ InScope(item[t].raw[1]) /\ ~IsDropped(item[t].raw[1])
    /\ writes[t][1][2] # item[t].raw[1].principal
    /\ AclOfRaw(item[t].raw)[writes[t][1][2]] = None
    /\ acl[item[t].object_id][writes[t][1][2]] = _enum(item[t].raw[1].permission)
    /\ acl[item[t].object_id][item[t].raw[1].principal] = _enum(item[t].raw[1].permission)

\* every entry of the record is in scope and none has a target principal
AllDropped(t) ==
  /\ Len(item[t].raw) >= 1
  /\ \A i \in 1..Len(item[t].raw) : IsDropped(item[t].raw[i])

\* C20: for a record whose entries are all in scope and all without target
\* principal, get_apply_task gives a task; the task has nothing to write,
\* it makes no API call (no put_acl, no read, no slot taken, the scope as
\* it was) and its run can only return True.
C20_EmptyTaskReturnsTrue ==
  \A t \in Task :
    (AllDropped(t) /\ pc[t] \notin {"absent", "record"}) =>
      /\ pc[t] \in {"built", "loop", "succeeded"}
      /\ new_acls[t] = <<>>
      /\ writes[t] = <<>> /\ puts[t] = 0 /\ reads[t] = 0 /\ sleeps[t] = 0
      /\ slots = 0
      /\ acl[item[t].object_id] = AclOfRaw(item[t].raw)
      /\ pc[t] = "loop" => (ENABLED ReturnTrue(t) /\ ~ENABLED EnterPutAcl(t))

\* the task of such a record of two entries has returned True
C20_Witness ==
  \E t \in Task :
    AllDropped(t) /\ Len(item[t].raw) = 2 /\ pc[t] = "succeeded" /\ runs[t] = 1

====
